---- MODULE Spec2Model ----
(***************************************************************************)
(* BWLOVERS-AI: the recommendation pipeline of insurance_recommender.py    *)
(* and the HTTP endpoint of main.py.                                       *)
(*                                                                         *)
(* Text is modelled character by character: a Python str is a sequence of  *)
(* one-character atoms.  An ASCII character is itself ("a", "{", "\"").    *)
(* A Hangul syllable is ONE atom, written in capitals in its romanised     *)
(* form ("SAM" is U+C0BC, "BO" "HEOM" is the two-character word for        *)
(* insurance); the four quotation glyphs of _fix_json_string are "LDQ"     *)
(* (U+201C), "RDQ" (U+201D), "LCB" (U+300C) and "RCB" (U+300D).  Lengths   *)
(* and substrings are therefore those of the Python strings.               *)
(***************************************************************************)
EXTENDS Integers, Sequences, FiniteSets, TLC

Min(S) == CHOOSE x \in S : \A y \in S : x <= y

Max(S) == CHOOSE x \in S : \A y \in S : x >= y

\* name = e, then the rest: F is the rest as a function of the name
Bind(e, F(_)) == F(e)

(***************************************************************************)
(* Python str primitives                                                   *)
(***************************************************************************)
Whitespace == {" ", "\t", "\n", "\r"}

\* s[i:i+len(pat)] == pat
StartsAt(s, pat, i) ==
    /\ i + Len(pat) - 1 <= Len(s)
    /\ \A k \in 1..Len(pat) : s[i + k - 1] = pat[k]

\* pat in s
Contains(s, pat) == \E i \in 1..(Len(s) - Len(pat) + 1) : StartsAt(s, pat, i)

\* s.strip()
strip(s) ==
    LET keep == {i \in 1..Len(s) : s[i] \notin Whitespace}
    IN  IF keep = {} THEN <<>> ELSE SubSeq(s, Min(keep), Max(keep))

\* the rest of s from s[i], each occurrence of old replaced (old is not empty)
RECURSIVE replace_from(_, _, _, _)
replace_from(s, old, new, i) ==
    LET hits == {j \in i..(Len(s) - Len(old) + 1) : StartsAt(s, old, j)}
    IN  IF hits = {} THEN SubSeq(s, i, Len(s))
        ELSE SubSeq(s, i, Min(hits) - 1) \o new
             \o replace_from(s, old, new, Min(hits) + Len(old))

\* s.replace(old, new): every non-overlapping occurrence, left to right
replace(s, old, new) ==
    IF Contains(s, old) THEN replace_from(s, old, new, 1) ELSE s

(***************************************************************************)
(* Insurer-name extraction and the two naming heuristics                   *)
(***************************************************************************)
INSURER_NAMES ==
    << <<"SAM","SEONG","HWA","JAE">>,
       <<"HYEON","DAE","HAE","SANG">>,
       <<"D","B","SON","HAE","BO","HEOM">>,
       <<"K","B","SON","HAE","BO","HEOM">>,
       <<"ME","RI","CHEU","HWA","JAE">>,
       <<"HAN","HWA","SON","HAE","BO","HEOM">>,
       <<"HEUNG","GUK","HWA","JAE">>,
       <<"ROT","DE","SON","HAE","BO","HEOM">>,
       <<"M","G","SON","HAE","BO","HEOM">> >>

PLAN_KEYWORDS ==
    { <<"MU","BAE","DANG">>,
      <<"DA","YI","REK","TEU">>,
      <<"HAE","YAK","HWAN","GEUP","GEUM">>,
      <<"BO","HEOM">>,
      <<"HYEONG">>,
      <<"BO","JANG">> }

CONTRACT_KEYWORDS ==
    { <<"TEUK","YAK">>,
      <<"TEUK","BYEOL","YAK","GWAN">>,
      <<"JIN","DAN","BI">>,
      <<"SIL","SON">>,
      <<"WI","RO","GEUM">>,
      <<"IP","WON","UI","RYO","BI">> }

PlanNameMinLen == 15

extract_insurer_name(text) ==
    LET hits == {k \in 1..Len(INSURER_NAMES) : Contains(text, INSURER_NAMES[k])}
    IN  IF text = <<>> \/ hits = {} THEN <<>> ELSE INSURER_NAMES[Min(hits)]

looks_like_plan_name(s) ==
    /\ s # <<>>
    /\ \/ \E k \in PLAN_KEYWORDS : Contains(s, k)
       \/ Len(s) >= PlanNameMinLen

looks_like_contract_name(s) ==
    /\ s # <<>>
    /\ \E k \in CONTRACT_KEYWORDS : Contains(s, k)

(***************************************************************************)
(* JSON values and json.loads                                              *)
(* A value is [t, v]: t its JSON type, v its payload (0 where none).       *)
(* An object (a Python dict) is the sequence of its <<key, value>> members *)
(* in insertion order, each key once: a repeated key overwrites the value  *)
(* in place, as Python's dict does.                                        *)
(* Numbers are integers (the replies and tables modelled hold no fraction  *)
(* or exponent) and strings hold no \u escape.                             *)
(***************************************************************************)
JNull == [t |-> "null", v |-> 0]

JBool(b) == [t |-> "bool", v |-> b]

JNum(n) == [t |-> "num", v |-> n]

JStr(s) == [t |-> "str", v |-> s]

JList(xs) == [t |-> "list", v |-> xs]

JObj(members) == [t |-> "obj", v |-> members]

\* d[key] = val on the members of a dict
DictSet(members, key, val) ==
    LET at == {i \in 1..Len(members) : members[i][1] = key}
    IN  IF at = {} THEN Append(members, <<key, val>>)
        ELSE [members EXCEPT ![Min(at)] = <<key, val>>]

RECURSIVE DictUpdate(_, _)
\* d.update(other) on the members of two dicts
DictUpdate(members, other) ==
    IF other = <<>> THEN members
    ELSE DictUpdate(DictSet(members, other[1][1], other[1][2]), Tail(other))

ParseFail == [ok |-> FALSE, val |-> JNull, pos |-> 0]

ParseOk(val, pos) == [ok |-> TRUE, val |-> val, pos |-> pos]

Digit == [c \in {"0","1","2","3","4","5","6","7","8","9"} |->
            CASE c = "0" -> 0 [] c = "1" -> 1 [] c = "2" -> 2 [] c = "3" -> 3
              [] c = "4" -> 4 [] c = "5" -> 5 [] c = "6" -> 6 [] c = "7" -> 7
              [] c = "8" -> 8 [] c = "9" -> 9]

IsDigit(c) == c \in DOMAIN Digit

\* the character an escape \c stands for
Unescape == [c \in {"\"", "\\", "/", "n", "t", "r"} |->
               CASE c = "n" -> "\n" [] c = "t" -> "\t" [] c = "r" -> "\r"
                 [] OTHER -> c]

RECURSIVE skip_ws(_, _)
skip_ws(s, i) ==
    IF i <= Len(s) /\ s[i] \in Whitespace THEN skip_ws(s, i + 1) ELSE i

\* the body of a string, from the character after its opening quote: up to
\* the next quote or backslash in one step, acc the characters read so far
RECURSIVE scan_string(_, _, _)
scan_string(s, i, acc) ==
    LET stops == {j \in i..Len(s) : s[j] \in {"\"", "\\"}}
    IN  IF stops = {} THEN ParseFail
        ELSE
        LET j    == Min(stops)
            part == SubSeq(s, i, j - 1)
        IN  IF \E k \in 1..Len(part) : part[k] \in {"\n", "\t", "\r"} THEN ParseFail
            ELSE IF s[j] = "\"" THEN ParseOk(JStr(acc \o part), j + 1)
            ELSE IF j + 1 <= Len(s) /\ s[j + 1] \in DOMAIN Unescape
                 THEN scan_string(s, j + 2, acc \o part \o <<Unescape[s[j + 1]]>>)
                 ELSE ParseFail

RECURSIVE scan_digits(_, _, _)
scan_digits(s, i, acc) ==
    IF i <= Len(s) /\ IsDigit(s[i])
    THEN scan_digits(s, i + 1, 10 * acc + Digit[s[i]])
    ELSE [val |-> acc, pos |-> i]

\* an integer; a leading 0 ends the number
scan_number(s, i) ==
    LET neg == s[i] = "-"
        j   == IF neg THEN i + 1 ELSE i
    IN  IF j > Len(s) \/ ~IsDigit(s[j]) THEN ParseFail
        ELSE LET d == IF s[j] = "0" THEN [val |-> 0, pos |-> j + 1]
                      ELSE scan_digits(s, j, 0)
             IN  ParseOk(JNum(IF neg THEN 0 - d.val ELSE d.val), d.pos)

RECURSIVE parse_value(_, _)
RECURSIVE parse_array(_, _, _)
RECURSIVE parse_object(_, _, _)

\* the value starting at s[i] (i past any whitespace)
parse_value(s, i) ==
    IF i > Len(s) THEN ParseFail
    ELSE IF s[i] = "\"" THEN scan_string(s, i + 1, <<>>)
    ELSE IF s[i] = "{"
         THEN LET j == skip_ws(s, i + 1)
              IN  IF j <= Len(s) /\ s[j] = "}" THEN ParseOk(JObj(<<>>), j + 1)
                  ELSE parse_object(s, j, <<>>)
    ELSE IF s[i] = "["
         THEN LET j == skip_ws(s, i + 1)
              IN  IF j <= Len(s) /\ s[j] = "]" THEN ParseOk(JList(<<>>), j + 1)
                  ELSE parse_array(s, j, <<>>)
    ELSE IF StartsAt(s, <<"t","r","u","e">>, i) THEN ParseOk(JBool(TRUE), i + 4)
    ELSE IF StartsAt(s, <<"f","a","l","s","e">>, i) THEN ParseOk(JBool(FALSE), i + 5)
    ELSE IF StartsAt(s, <<"n","u","l","l">>, i) THEN ParseOk(JNull, i + 4)
    ELSE IF s[i] = "-" \/ IsDigit(s[i]) THEN scan_number(s, i)
    ELSE ParseFail

\* the elements of an array from s[i], acc the elements read so far
parse_array(s, i, acc) ==
    LET r == parse_value(s, i)
    IN  IF ~r.ok THEN ParseFail
        ELSE LET j == skip_ws(s, r.pos)
             IN  IF j > Len(s) THEN ParseFail
                 ELSE IF s[j] = "]" THEN ParseOk(JList(Append(acc, r.val)), j + 1)
                 ELSE IF s[j] = ","
                      THEN parse_array(s, skip_ws(s, j + 1), Append(acc, r.val))
                 ELSE ParseFail

\* the members of an object from s[i], acc the members read so far
parse_object(s, i, acc) ==
    IF i > Len(s) \/ s[i] # "\"" THEN ParseFail
    ELSE LET k == scan_string(s, i + 1, <<>>)
         IN  IF ~k.ok THEN ParseFail
             ELSE LET c == skip_ws(s, k.pos)
                  IN  IF c > Len(s) \/ s[c] # ":" THEN ParseFail
                      ELSE LET r == parse_value(s, skip_ws(s, c + 1))
                           IN  IF ~r.ok THEN ParseFail
                               ELSE LET j  == skip_ws(s, r.pos)
                                        m  == DictSet(acc, k.val.v, r.val)
                                    IN  IF j > Len(s) THEN ParseFail
                                        ELSE IF s[j] = "}" THEN ParseOk(JObj(m), j + 1)
                                        ELSE IF s[j] = ","
                                             THEN parse_object(s, skip_ws(s, j + 1), m)
                                        ELSE ParseFail

\* json.loads(s): ok = FALSE stands for json.JSONDecodeError
json_loads(s) ==
    LET r == parse_value(s, skip_ws(s, 1))
    IN  IF r.ok /\ skip_ws(s, r.pos) = Len(s) + 1 THEN r ELSE ParseFail

(***************************************************************************)
(* Python values.  A Python value read from JSON is the JSON value; a dict *)
(* is an "obj", None is "null".                                            *)
(***************************************************************************)
\* bool(x)
Truthy(x) ==
    CASE x.t = "null" -> FALSE
      [] x.t = "bool" -> x.v
      [] x.t = "num"  -> x.v # 0
      [] OTHER        -> x.v # <<>>

\* d.get(key): found = FALSE when the key is absent
DictGet(d, key) ==
    LET at == {i \in 1..Len(d.v) : d.v[i][1] = key}
    IN  IF at = {} THEN [found |-> FALSE, val |-> JNull]
        ELSE [found |-> TRUE, val |-> d.v[Min(at)][2]]

\* d.get(key, default)
DictGetOr(d, key, default) ==
    LET r == DictGet(d, key) IN IF r.found THEN r.val ELSE default

RECURSIVE DecimalOf(_)
DecimalOf(n) ==
    LET last == <<CHOOSE c \in DOMAIN Digit : Digit[c] = n % 10>>
    IN  IF n < 10 THEN last ELSE DecimalOf(n \div 10) \o last

\* str(n) of an int
StrOfInt(n) == IF n < 0 THEN <<"-">> \o DecimalOf(0 - n) ELSE DecimalOf(n)

\* int(s) of a str: the digits of the stripped text, with an optional sign
IntOfStr(s) ==
    Bind(strip(s), LAMBDA b :
    Bind(b # <<>> /\ b[1] \in {"-", "+"}, LAMBDA sign :
    Bind(IF sign THEN Tail(b) ELSE b, LAMBDA d :
      IF d = <<>> \/ \E i \in 1..Len(d) : ~IsDigit(d[i])
      THEN [ok |-> FALSE, val |-> 0]
      ELSE Bind(scan_digits(d, 1, 0).val, LAMBDA n :
             [ok |-> TRUE, val |-> IF sign /\ b[1] = "-" THEN 0 - n ELSE n]))))

\* int(x): ok = FALSE stands for the ValueError or TypeError raised
PyInt(x) ==
    CASE x.t = "num"  -> [ok |-> TRUE, val |-> x.v]
      [] x.t = "bool" -> [ok |-> TRUE, val |-> IF x.v THEN 1 ELSE 0]
      [] x.t = "str"  -> IntOfStr(x.v)
      [] OTHER        -> [ok |-> FALSE, val |-> 0]

\* str(x); the repr of a list or dict is not spelled out
PyStr(x) ==
    CASE x.t = "str"  -> x.v
      [] x.t = "num"  -> StrOfInt(x.v)
      [] x.t = "bool" -> IF x.v THEN <<"T","r","u","e">> ELSE <<"F","a","l","s","e">>
      [] x.t = "null" -> <<"N","o","n","e">>
      [] OTHER        -> <<"<repr>">>

(***************************************************************************)
(* State                                                                   *)
(***************************************************************************)
VARIABLES
    phase,             \* how far process start (the import of the module) has got
    RAG_AVAILABLE,     \* the module flag set by the import block
    vectorstore,       \* the module global: the index loaded from disk, or None
    self_vectorstore,  \* recommender.vectorstore
    faiss_index,       \* the persisted index on disk (ntotal; 0 when there is none)
    PRICE_MAP,         \* insurer -> product -> premium
    SUM_INSURED_MAP,   \* insurer -> product -> coverage amount
    req,               \* the HTTP requests in flight, one record per slot
    unit               \* a direct call of one function: its arguments and result

vars == <<phase, RAG_AVAILABLE, vectorstore, self_vectorstore, faiss_index,
          PRICE_MAP, SUM_INSURED_MAP, req, unit>>

(***************************************************************************)
(* Response Normalizer                                                     *)
(***************************************************************************)
K_recommendations == <<"r","e","c","o","m","m","e","n","d","a","t","i","o","n","s">>

K_insurance_company == <<"i","n","s","u","r","a","n","c","e","_","c","o","m","p","a","n","y">>

K_product_name == <<"p","r","o","d","u","c","t","_","n","a","m","e">>

K_reason == <<"r","e","a","s","o","n">>

K_special_contracts == <<"s","p","e","c","i","a","l","_","c","o","n","t","r","a","c","t","s">>

K_evidence == <<"e","v","i","d","e","n","c","e">>

K_page_number == <<"p","a","g","e","_","n","u","m","b","e","r">>

\* re.search(r"(\{.*\})", text, re.DOTALL): from the first "{" to the last "}"
json_block(text) ==
    LET opens  == {i \in 1..Len(text) : text[i] = "{"}
        closes == {i \in 1..Len(text) : text[i] = "}"}
    IN  IF opens = {} \/ closes = {} \/ Max(closes) < Min(opens)
        THEN [found |-> FALSE, group |-> <<>>]
        ELSE [found |-> TRUE, group |-> SubSeq(text, Min(opens), Max(closes))]

\* lines 324-325: the chain of str.replace calls, innermost first
_fix_json_string(s) ==
    replace(replace(replace(
        replace(replace(replace(replace(s, <<"LCB">>, <<"'">>),
                                <<"RCB">>, <<"'">>),
                        <<"LDQ">>, <<"'">>),
                <<"RDQ">>, <<"'">>),
        <<"T","r","u","e">>, <<"t","r","u","e">>),
        <<"F","a","l","s","e">>, <<"f","a","l","s","e">>),
        <<"N","o","n","e">>, <<"n","u","l","l">>)

DefaultSumInsured == 10000000

DefaultPrice == 30000

\* X[c][p]: a lookup without defaults, a miss raises KeyError
TableIndex(table, c, p, default) ==
    Bind(DictGet(table, c), LAMBDA row :
      IF ~row.found \/ row.val.t # "obj" THEN [ok |-> FALSE, val |-> JNull]
      ELSE Bind(DictGet(row.val, p), LAMBDA cell :
             IF cell.found THEN [ok |-> TRUE, val |-> cell.val]
             ELSE [ok |-> FALSE, val |-> JNull]))

\* X.get(c, {}).get(p, default); ok = FALSE: the row is no dict (AttributeError)
TableGet(table, c, p, default) ==
    Bind(DictGetOr(table, c, JObj(<<>>)), LAMBDA row :
      IF row.t # "obj" THEN [ok |-> FALSE, val |-> JNull]
      ELSE [ok |-> TRUE, val |-> DictGetOr(row, p, JNum(default))])

_get_sum_insured(c, p) == TableGet(SUM_INSURED_MAP, c, p, DefaultSumInsured)

_get_insurance_price(c, p) == TableGet(PRICE_MAP, c, p, DefaultPrice)

\* (rec.get(key) or "").strip(); ok = FALSE: a truthy value that is no str
StrippedField(rec, key) ==
    Bind(DictGetOr(rec, key, JNull), LAMBDA x :
      IF ~Truthy(x) THEN [ok |-> TRUE, val |-> <<>>]
      ELSE IF x.t = "str" THEN [ok |-> TRUE, val |-> strip(x.v)]
      ELSE [ok |-> FALSE, val |-> <<>>])

\* the pair left as the reply gives it
NoSwap(comp, prod) == [comp |-> comp, prod |-> prod]

\* lines 272-275: the pair after the swap correction
SwapCorrection(comp, prod) ==
    IF looks_like_plan_name(comp) /\ looks_like_contract_name(prod)
    THEN Bind(extract_insurer_name(comp), LAMBDA found :
           [comp |-> IF found # <<>> THEN found ELSE comp, prod |-> comp])
    ELSE [comp |-> comp, prod |-> prod]

\* lines 281-284 and the iteration of line 301: the riders as a sequence;
\* ok = FALSE: a truthy value that cannot be iterated (TypeError)
ContractList(rec) ==
    Bind(DictGetOr(rec, K_special_contracts, JList(<<>>)), LAMBDA x :
      IF ~Truthy(x) THEN [ok |-> TRUE, val |-> <<>>]
      ELSE CASE x.t = "str"  -> [ok |-> TRUE, val |-> <<x>>]
             [] x.t = "list" -> [ok |-> TRUE, val |-> x.v]
             [] x.t = "obj"  -> [ok |-> TRUE,
                                 val |-> [i \in 1..Len(x.v) |-> JStr(x.v[i][1])]]
             [] OTHER        -> [ok |-> FALSE, val |-> <<>>])

ContractDescription == <<"YAK","GWAN"," ","GI","BAN"," ","MAT","CHUM"," ","BO","JANG">>

WeekSuffix == <<"JU","CHA"," ","MAT","CHUM"," ","TEUK","YAK">>

KeyFeatures == << <<"BO","JANG"," ","BEOM","WI"," ","HWAK","IN"," ","WAN","RYO">> >>

MaxItems == 3

NoItem == [ok |-> FALSE, item |-> <<>>]

\* lines 262-309: the item of raw entry rec at 0-based index idx; ok = FALSE
\* stands for the exception the entry raises
BuildItem(rec, idx, analysis, relevant_docs, itemId) ==
    IF relevant_docs = <<>> \/ rec.t # "obj" THEN NoItem
    ELSE
    Bind(IF idx < Len(relevant_docs) THEN relevant_docs[idx + 1]
         ELSE relevant_docs[1], LAMBDA doc :
    Bind(IF Truthy(doc.metadata) THEN doc.metadata ELSE JObj(<<>>), LAMBDA md :
    Bind(StrippedField(rec, K_insurance_company), LAMBDA c0 :
    Bind(StrippedField(rec, K_product_name), LAMBDA p0 :
    Bind(SwapCorrection(c0.val, p0.val), LAMBDA sw :
    Bind(_get_sum_insured(sw.comp, sw.prod), LAMBDA si :
    Bind(_get_insurance_price(sw.comp, sw.prod), LAMBDA mc :
    Bind(ContractList(rec), LAMBDA sc :
    Bind(PyInt(DictGetOr(md, K_page_number, JNum(1))), LAMBDA page :
    Bind(PyInt(si.val), LAMBDA sum :
      IF ~(c0.ok /\ p0.ok /\ si.ok /\ mc.ok /\ sc.ok /\ page.ok /\ sum.ok)
      THEN NoItem
      ELSE [ok |-> TRUE, item |->
             [itemId |-> itemId,
              insurance_company |-> sw.comp,
              product_name |-> sw.prod,
              is_long_term |-> TRUE,
              sum_insured |-> sum.val,
              monthly_cost |-> PyStr(mc.val),
              insurance_recommendation_reason |-> DictGetOr(rec, K_reason, JStr(<<>>)),
              special_contracts |->
                  [k \in 1..Len(sc.val) |->
                      [contract_name |-> PyStr(sc.val[k]),
                       contract_description |-> ContractDescription,
                       contract_recommendation_reason |->
                           StrOfInt(analysis.gestational_week) \o WeekSuffix,
                       key_features |-> KeyFeatures,
                       page_number |-> page.val]],
              evidence_sources |->
                  << [page_number |-> page.val,
                      text_snippet |-> DictGetOr(rec, K_evidence, JStr(<<>>))] >>]]
    ))))))))))

NoMetadata == [fallback |-> FALSE, documents_used |-> 0, gestational_week |-> 0]

\* {"items": []}
EmptyItemsResult ==
    [keys |-> {"items"}, resultId |-> <<>>, items |-> <<>>, rag_metadata |-> NoMetadata]

\* recs[:2]: the slice one entry short
FirstTwoRecs(recs) ==
    CASE recs.t = "list" ->
           [ok |-> TRUE, val |-> SubSeq(recs.v, 1, IF Len(recs.v) < 2 THEN Len(recs.v)
                                                   ELSE 2)]
      [] OTHER -> [ok |-> FALSE, val |-> <<>>]

\* recs[:3] as a sequence of entries; ok = FALSE: recs cannot be sliced
FirstRecs(recs) ==
    CASE recs.t = "list" ->
           [ok |-> TRUE, val |-> SubSeq(recs.v, 1, IF Len(recs.v) < MaxItems
                                                   THEN Len(recs.v) ELSE MaxItems)]
      [] recs.t = "str" ->
           [ok |-> TRUE, val |-> [i \in 1..(IF Len(recs.v) < MaxItems THEN Len(recs.v)
                                            ELSE MaxItems) |-> JStr(<<recs.v[i]>>)]]
      [] OTHER -> [ok |-> FALSE, val |-> <<>>]

Returned(value) == [raised |-> FALSE, value |-> value]

Raised == [raised |-> TRUE, value |-> EmptyItemsResult]

\* lines 253-318, the body of the try; llm_response a Python value (re.search
\* raises on one that is no str); ids: the uuid4 draws of the call, ids.result
\* and ids.item[1..3]
parse_try_body(llm_response, analysis, relevant_docs, ids) ==
    IF llm_response.t # "str" THEN Raised
    ELSE
    Bind(json_block(llm_response.v), LAMBDA blk :
      IF ~blk.found THEN Returned(EmptyItemsResult)
      ELSE
      Bind(json_loads(_fix_json_string(blk.group)), LAMBDA data :
        IF ~data.ok THEN Raised
        ELSE IF data.val.t # "obj" THEN Raised
        ELSE
        Bind(FirstRecs(DictGetOr(data.val, K_recommendations, JList(<<>>))),
             LAMBDA recs :
          IF ~recs.ok THEN Raised
          ELSE
          Bind([i \in 1..Len(recs.val) |->
                  BuildItem(recs.val[i], i - 1, analysis, relevant_docs, ids.item[i])],
               LAMBDA built :
            IF \E i \in 1..Len(built) : ~built[i].ok THEN Raised
            ELSE Returned(
                 [keys |-> {"resultId", "items", "rag_metadata"},
                  resultId |-> ids.result,
                  items |-> [i \in 1..Len(built) |-> built[i].item],
                  rag_metadata |->
                      [fallback |-> FALSE,
                       documents_used |-> Len(relevant_docs),
                       gestational_week |-> analysis.gestational_week]])))))

\* no except clause: the exception leaves the function
Propagate(body) == body

\* lines 319-321: except Exception -> {"items": []}
parse_except(body) == IF body.raised THEN Returned(EmptyItemsResult) ELSE body

_parse_llm_response_to_recommendation(llm_response, analysis, relevant_docs, ids) ==
    parse_except(parse_try_body(llm_response, analysis, relevant_docs, ids))

FallbackId == <<"f","a","l","l","b","a","c","k">>

_fallback_recommendation ==
    [keys |-> {"resultId", "items", "rag_metadata"},
     resultId |-> FallbackId,
     items |-> <<>>,
     rag_metadata |-> [fallback |-> TRUE, documents_used |-> 0, gestational_week |-> 0]]

(***************************************************************************)
(* Profile Normalizer                                                      *)
(* A profile is a dict whose keys are field names, written as TLA+ strings *)
(* (no operation looks inside a key).                                      *)
(***************************************************************************)
\* a or b
PyOr(a, b) == IF Truthy(a) THEN a ELSE b

\* d.get(key): None when the key is absent
Get(d, key) == DictGetOr(d, key, JNull)

PREECLAMPSIA == <<"P","R","E","E","C","L","A","M","P","S","I","A">>

PRETERM_RISK == <<"P","R","E","T","E","R","M","_","R","I","S","K">>

RiskPreeclampsia == <<"IM","SIN","JUNG","DOK","JEUNG">>

RiskPreterm == <<"JO","SAN","WI","HEOM">>

\* line 354: the type of one complication entry; ok = FALSE: the entry is
\* neither a str nor a dict
ComplicationType(c) ==
    CASE c.t = "str" -> [ok |-> TRUE, val |-> c]
      [] c.t = "obj" -> [ok |-> TRUE,
                         val |-> PyOr(Get(c, "pregnancyComplicationType"),
                                      Get(c, "complication_type"))]
      [] OTHER       -> [ok |-> FALSE, val |-> JNull]

\* the elements a for loop draws from x; ok = FALSE: x cannot be iterated
Iterate(x) ==
    CASE x.t = "list" -> [ok |-> TRUE, val |-> x.v]
      [] x.t = "str"  -> [ok |-> TRUE, val |-> [i \in 1..Len(x.v) |-> JStr(<<x.v[i]>>)]]
      [] x.t = "obj"  -> [ok |-> TRUE, val |-> [i \in 1..Len(x.v) |-> JStr(<<x.v[i][1]>>)]]
      [] OTHER        -> [ok |-> FALSE, val |-> <<>>]

RECURSIVE RiskFactors(_)
\* lines 353-358 over the entries comps
RiskFactors(comps) ==
    IF comps = <<>> THEN <<>>
    ELSE Bind(ComplicationType(comps[1]).val, LAMBDA c_type :
           (IF c_type.t # "str" THEN <<>>
            ELSE IF c_type.v = PREECLAMPSIA THEN <<RiskPreeclampsia>>
            ELSE IF c_type.v = PRETERM_RISK THEN <<RiskPreterm>>
            ELSE <<>>) \o RiskFactors(Tail(comps)))

NoAnalysis ==
    [gestational_week |-> 0, is_multiple_pregnancy |-> FALSE,
     miscarriage_history |-> 0, risk_factors |-> <<>>]

AnalysisRaised == [raised |-> TRUE, value |-> NoAnalysis]

\* lines 339-360; raised: an int() that fails, a pregnancyInfo that is no dict,
\* complications that cannot be iterated
_analyze_user_profile(user_profile, health_status) ==
    Bind(PyOr(Get(user_profile, "pregnancyInfo"), user_profile), LAMBDA p_info :
      IF p_info.t # "obj" THEN AnalysisRaised
      ELSE
      Bind(PyOr(PyOr(Get(p_info, "gestationalWeek"),
                     Get(p_info, "gestational_week")), JNum(0)), LAMBDA gest_week :
      Bind(PyOr(PyOr(Get(p_info, "isMultiplePregnancy"),
                     Get(p_info, "is_multiple_pregnancy")), JBool(FALSE)),
           LAMBDA is_multiple :
      Bind(PyOr(PyOr(Get(p_info, "miscarriageHistory"),
                     Get(p_info, "miscarriage_history")), JNum(0)),
           LAMBDA miscarriage :
      Bind(PyOr(PyOr(Get(health_status, "pregnancyComplications"),
                     Get(health_status, "pregnancy_complications")), JList(<<>>)),
           LAMBDA comps :
      Bind(PyInt(gest_week), LAMBDA week :
      Bind(PyInt(miscarriage), LAMBDA misc :
      Bind(Iterate(comps), LAMBDA entries :
        IF ~week.ok \/ ~misc.ok \/ ~entries.ok
           \/ \E i \in 1..Len(entries.val) : ~ComplicationType(entries.val[i]).ok
        THEN AnalysisRaised
        ELSE [raised |-> FALSE,
              value |-> [gestational_week |-> week.val,
                         is_multiple_pregnancy |-> Truthy(is_multiple),
                         miscarriage_history |-> misc.val,
                         risk_factors |-> RiskFactors(entries.val)]]))))))))

(***************************************************************************)
(* Date conversion of the endpoint                                         *)
(***************************************************************************)
IsLeap(y) == (y % 4 = 0 /\ y % 100 # 0) \/ y % 400 = 0

DaysInMonth(y, m) ==
    CASE m \in {1, 3, 5, 7, 8, 10, 12} -> 31
      [] m \in {4, 6, 9, 11}           -> 30
      [] OTHER                         -> IF IsLeap(y) THEN 29 ELSE 28

JDate(y, m, d) == [t |-> "date", v |-> <<y, m, d>>]

\* datetime.date(y, m, d); ok = FALSE: ValueError
date(y, m, d) ==
    IF /\ y >= 1 /\ y <= 9999          \* datetime.MINYEAR, datetime.MAXYEAR
       /\ m >= 1 /\ m <= 12
       /\ d >= 1 /\ d <= DaysInMonth(y, m)
    THEN [ok |-> TRUE, val |-> JDate(y, m, d)]
    ELSE [ok |-> FALSE, val |-> JNull]

\* s[a:b] with 0-based a and b, clipped as Python clips a slice
Slice(s, a, b) ==
    SubSeq(s, a + 1, IF b < Len(s) THEN b ELSE Len(s))

\* v.split('T')[0]
BeforeT(s) ==
    LET ts == {i \in 1..Len(s) : s[i] = "T"}
    IN  IF ts = {} THEN s ELSE SubSeq(s, 1, Min(ts) - 1)

AllDigits(s) == s # <<>> /\ \A i \in 1..Len(s) : IsDigit(s[i])

\* date.fromisoformat(s) for the extended form YYYY-MM-DD; ok = FALSE: ValueError
fromisoformat(s) ==
    IF /\ Len(s) = 10 /\ s[5] = "-" /\ s[8] = "-"
       /\ AllDigits(Slice(s, 0, 4)) /\ AllDigits(Slice(s, 5, 7))
       /\ AllDigits(Slice(s, 8, 10))
    THEN date(scan_digits(s, 1, 0).val, scan_digits(s, 6, 0).val,
              scan_digits(s, 9, 0).val)
    ELSE [ok |-> FALSE, val |-> JNull]

DateReturned(v) == [raised |-> FALSE, exc |-> "", value |-> v]

DateRaised(exc) == [raised |-> TRUE, exc |-> exc, value |-> JNull]

\* lines 31-33: the int branch (a bool is an int in Python: str(True) = "True")
IntToDate(v) ==
    Bind(PyStr(v), LAMBDA s :
    Bind(IntOfStr(Slice(s, 0, 4)), LAMBDA y :
    Bind(IntOfStr(Slice(s, 4, 6)), LAMBDA m :
    Bind(IntOfStr(Slice(s, 6, 8)), LAMBDA d :
      IF ~(y.ok /\ m.ok /\ d.ok) THEN DateRaised("ValueError")
      ELSE Bind(date(y.val, m.val, d.val), LAMBDA r :
             IF r.ok THEN DateReturned(r.val) ELSE DateRaised("ValueError"))))))

\* lines 34-35: the branch of a list of three; the first int() that fails
\* decides the exception (TypeError for None, a list or a dict)
ListToDate(v) ==
    Bind([i \in 1..3 |-> PyInt(v.v[i])], LAMBDA n :
    Bind({i \in 1..3 : ~n[i].ok}, LAMBDA bad :
      IF bad # {}
      THEN IF v.v[Min(bad)].t = "str" THEN DateRaised("ValueError")
           ELSE DateRaised("TypeError")
      ELSE Bind(date(n[1].val, n[2].val, n[3].val), LAMBDA r :
             IF r.ok THEN DateReturned(r.val) ELSE DateRaised("ValueError"))))

\* lines 36-40: the str branch, every failure caught
StrToDate(v) ==
    Bind(fromisoformat(BeforeT(v.v)), LAMBDA r :
      IF r.ok THEN DateReturned(r.val) ELSE DateReturned(JNull))

any_to_date(v) ==
    CASE v.t \in {"null", "date"}          -> DateReturned(v)
      [] v.t \in {"num", "bool"}           -> IntToDate(v)
      [] v.t = "list" /\ Len(v.v) = 3      -> ListToDate(v)
      [] v.t = "str"                       -> StrToDate(v)
      [] OTHER                             -> DateReturned(v)

(***************************************************************************)
(* Process start: the import of insurance_recommender                      *)
(***************************************************************************)
Quoted(s) == <<"\"">> \o s \o <<"\"">>

RECURSIVE Joined(_, _)
Joined(parts, sep) ==
    IF parts = <<>> THEN <<>>
    ELSE IF Len(parts) = 1 THEN parts[1]
    ELSE parts[1] \o sep \o Joined(Tail(parts), sep)

\* JSON text of an object / a list from the texts of its parts
Member(key, valueText) == Quoted(key) \o <<":", " ">> \o valueText

ObjectText(members) == <<"{">> \o Joined(members, <<",", " ">>) \o <<"}">>

ListText(elems) == <<"[">> \o Joined(elems, <<",", " ">>) \o <<"]">>

W_FetalPlan == <<"MU","BAE","DANG"," ","TAE","AH","BO","HEOM">>

W_SamsungFetalPlan ==
    <<"MU","BAE","DANG"," ","SAM","SEONG","HWA","JAE"," ","TAE","AH","BO","HEOM">>

W_DiagnosisRider == <<"JIN","DAN","BI"," ","TEUK","YAK">>

W_IndemnityRider == <<"SIL","SON">>

W_HyundaiPlan == <<"HYEON","DAE","HAE","SANG"," ","BO","HEOM">>

\* the text of prices.json / sum_insured.json
PriceFileText ==
    ObjectText(<<
        Member(INSURER_NAMES[1], ObjectText(<<
            Member(W_FetalPlan, StrOfInt(25000)),
            Member(W_SamsungFetalPlan, StrOfInt(41000)) >>)),
        Member(INSURER_NAMES[2], ObjectText(<<
            Member(W_HyundaiPlan, StrOfInt(33000)) >>)) >>)

SumInsuredFileText ==
    ObjectText(<<
        Member(INSURER_NAMES[1], ObjectText(<<
            Member(W_FetalPlan, StrOfInt(20000000)),
            Member(W_SamsungFetalPlan, StrOfInt(50000000)) >>)) >>)

\* a file of the process's directory: missing, unreadable as JSON, or a table
Files(text) ==
    { [exists |-> FALSE, text |-> <<>>],
      [exists |-> TRUE, text |-> SubSeq(text, 1, Len(text) - 1)],
      [exists |-> TRUE, text |-> text] }

\* lines 60-66 for one file: target_map.update(json.load(f)), a failure caught
LoadInto(target_map, file) ==
    IF ~file.exists THEN target_map
    ELSE LET loaded == json_loads(file.text)
         IN  IF ~loaded.ok \/ loaded.val.t # "obj" THEN target_map
             ELSE JObj(DictUpdate(target_map.v, loaded.val.v))

VNone == [none |-> TRUE, ntotal |-> 0]

Store(n) == [none |-> FALSE, ntotal |-> n]

\* lines 9-45, the import block.  ok: the imports and the load succeed;
\* the persisted index is loaded when index.faiss exists
ImportRag ==
    /\ phase = "import"
    /\ \E ok \in BOOLEAN :
         /\ RAG_AVAILABLE' = ok
         /\ vectorstore' = IF ok /\ faiss_index.exists THEN Store(faiss_index.ntotal)
                           ELSE VNone
    /\ phase' = "maps"
    /\ UNCHANGED <<self_vectorstore, faiss_index, PRICE_MAP, SUM_INSURED_MAP, req, unit>>

\* lines 54-69: _load_data_maps() over the two files
_load_data_maps ==
    /\ phase = "maps"
    /\ \E pf \in Files(PriceFileText), sf \in Files(SumInsuredFileText) :
         /\ PRICE_MAP' = LoadInto(PRICE_MAP, pf)
         /\ SUM_INSURED_MAP' = LoadInto(SUM_INSURED_MAP, sf)
    /\ phase' = "construct"
    /\ UNCHANGED <<RAG_AVAILABLE, vectorstore, self_vectorstore, faiss_index, req, unit>>

\* the documents directory: missing, unreadable, or holding n usable documents
DataDirs ==
    { [exists |-> FALSE, readable |-> FALSE, documents |-> 0],
      [exists |-> TRUE, readable |-> FALSE, documents |-> 0],
      [exists |-> TRUE, readable |-> TRUE, documents |-> 0],
      [exists |-> TRUE, readable |-> TRUE, documents |-> 2] }

\* lines 116-153: what _load_insurance_data leaves in self.vectorstore
BuiltStore(current, dir) ==
    IF ~current.none /\ current.ntotal > 0 THEN current
    ELSE IF ~dir.exists \/ ~dir.readable \/ dir.documents = 0 THEN current
    ELSE Store(dir.documents)

\* lines 110-114 and 363: recommender = InsuranceRecommender(); saved: whether
\* save_local of a newly built index succeeds
Construct ==
    /\ phase = "construct"
    /\ \E dir \in DataDirs, saved \in BOOLEAN :
         LET built == IF RAG_AVAILABLE THEN BuiltStore(vectorstore, dir) ELSE vectorstore
         IN  /\ self_vectorstore' = built
             /\ faiss_index' = IF built # vectorstore /\ saved
                               THEN [exists |-> TRUE, ntotal |-> built.ntotal]
                               ELSE faiss_index
    /\ phase' = "serving"
    /\ UNCHANGED <<RAG_AVAILABLE, vectorstore, PRICE_MAP, SUM_INSURED_MAP, req, unit>>

(***************************************************************************)
(* Retrieval, generation and the pipeline of generate_rag_recommendation   *)
(***************************************************************************)
Passage(metadata) == [page_content |-> <<"p">>, metadata |-> metadata]

PageMeta(page) == JObj(<< <<K_page_number, page>> >>)

DocA == Passage(PageMeta(JNum(4)))

DocB == Passage(JNull)

DocC == Passage(PageMeta(JStr(<<"1", "2">>)))

DocD == Passage(PageMeta(JStr(<<"?">>)))

\* what similarity_search_with_score does on a store: raises, or returns passages
SimilaritySearch(store, lists) ==
    {[raised |-> TRUE, docs |-> <<>>]}
        \cup {[raised |-> FALSE, docs |-> d] : d \in {l \in lists : Len(l) <= store.ntotal}}

\* lines 155-164
search_relevant_documents(store, found) ==
    IF store.none THEN <<>>
    ELSE IF found.raised THEN <<>>
    ELSE found.docs

K_answer == "answer"

\* lines 186-192 without the check of line 188: an empty result is returned
AfterAskKeepingEmpty(rag_result, parsed) ==
    IF Truthy(rag_result) /\ DictGet(rag_result, K_answer).found
    THEN parsed
    ELSE Returned(_fallback_recommendation)

\* lines 186-192: the result once ask_question has returned rag_result;
\* parsed: the normalizer's outcome on rag_result["answer"]
AfterAsk(rag_result, parsed) ==
    IF Truthy(rag_result) /\ DictGet(rag_result, K_answer).found
    THEN IF parsed.raised THEN parsed
         ELSE IF parsed.value.items = <<>> THEN Returned(_fallback_recommendation)
         ELSE parsed
    ELSE Returned(_fallback_recommendation)

\* lines 193-195: except Exception -> fallback
generate_except(body) ==
    IF body.raised THEN Returned(_fallback_recommendation) ELSE body

(***************************************************************************)
(* HTTP endpoint                                                           *)
(***************************************************************************)
Slots == {1, 2}

NoOutcome == Returned(EmptyItemsResult)

NoResponse == [status |-> 0, keys |-> {}, resultId |-> <<>>, expiresInSec |-> 0, items |-> <<>>]

IdleSlot ==
    [pc |-> "idle", body |-> JNull, user_profile |-> JNull, health_status |-> JNull,
     analysis |-> NoAnalysis, relevant_docs |-> <<>>, rag_result |-> JNull,
     parsed |-> NoOutcome, returned |-> NoOutcome, response |-> NoResponse,
     stages |-> <<>>, failed |-> "none"]

ExpiresInSec == 600

\* the types UserProfileIn and HealthStatusIn accept after the date validator
FieldTypes ==
    [gestationalWeek |-> {"num", "null"}, isMultiplePregnancy |-> {"bool", "null"},
     miscarriageHistory |-> {"num", "null"}]

\* lines 44-60 and 78-81: the body against BackendRequest.  status 200: the
\* handler runs; 422: RequestValidationError; 500: the validator let a
\* TypeError through
Validate(body) ==
    Bind(Get(body, "user_profile"), LAMBDA up :
    Bind(Get(body, "health_status"), LAMBDA hs :
    Bind(IF DictGet(up, "birthDate").found
         THEN any_to_date(Get(up, "birthDate")) ELSE DateReturned(JNull),
         LAMBDA birth :
    Bind(IF DictGet(up, "expectedDate").found
         THEN any_to_date(Get(up, "expectedDate")) ELSE DateReturned(JNull),
         LAMBDA due :
    Bind(DictGetOr(hs, "pregnancyComplications", JList(<<>>)), LAMBDA comps :
    Bind(/\ \A f \in DOMAIN FieldTypes :
              DictGet(up, f).found => Get(up, f).t \in FieldTypes[f]
         /\ comps.t = "list"
         /\ \A i \in 1..Len(comps.v) : comps.v[i].t = "str", LAMBDA typed :
      IF birth.exc = "TypeError" \/ due.exc = "TypeError"
      THEN [status |-> 500, user_profile |-> JNull, health_status |-> JNull]
      ELSE IF birth.raised \/ due.raised \/ ~typed
      THEN [status |-> 422, user_profile |-> JNull, health_status |-> JNull]
      ELSE [status |-> 200,
            user_profile |-> JObj(<<
                <<"birthDate", birth.value>>,
                <<"gestationalWeek", Get(up, "gestationalWeek")>>,
                <<"expectedDate", due.value>>,
                <<"isMultiplePregnancy", Get(up, "isMultiplePregnancy")>>,
                <<"miscarriageHistory", DictGetOr(up, "miscarriageHistory", JNum(0))>> >>),
            health_status |-> JObj(<< <<"pregnancyComplications", comps>> >>)]))))))

ErrorResponse(status) ==
    [status |-> status, keys |-> {"detail"}, resultId |-> <<>>, expiresInSec |-> 0,
     items |-> <<>>]

\* a request arrives and FastAPI validates its body
Receive(r, bodies) ==
    /\ phase = "serving"
    /\ req[r].pc = "idle"
    /\ \E body \in bodies : \E v \in {Validate(body)} :
             req' = [req EXCEPT ![r] =
                 IF v.status = 200
                 THEN [IdleSlot EXCEPT !.pc = "handler", !.body = body,
                                       !.user_profile = v.user_profile,
                                       !.health_status = v.health_status]
                 ELSE [IdleSlot EXCEPT !.pc = "responded", !.body = body,
                                       !.response = ErrorResponse(v.status)]]
    /\ UNCHANGED <<phase, RAG_AVAILABLE, vectorstore, self_vectorstore, faiss_index,
                   PRICE_MAP, SUM_INSURED_MAP, unit>>

\* main.py lines 129-134: model_dump() and the three snake-case copies
ProfileDict(user_profile) ==
    JObj(DictUpdate(user_profile.v,
         << <<"gestational_week", Get(user_profile, "gestationalWeek")>>,
            <<"is_multiple_pregnancy", Get(user_profile, "isMultiplePregnancy")>>,
            <<"miscarriage_history", Get(user_profile, "miscarriageHistory")>> >>))

(***************************************************************************)
(* Inputs: generative replies, uuid draws, request bodies                  *)
(***************************************************************************)
MaxRecs == 4

K_monthly_cost == <<"m","o","n","t","h","l","y","_","c","o","s","t">>

\* the members of the i-th well-formed entry, three shapes in rotation
EntryMembers(i) ==
    CASE i % 3 = 1 ->
           << Member(K_insurance_company, Quoted(INSURER_NAMES[1])),
              Member(K_product_name, Quoted(W_FetalPlan)),
              Member(K_monthly_cost, StrOfInt(30000)),
              Member(K_reason, Quoted(<<"a", "b", "c">>)),
              Member(K_special_contracts,
                     ListText(<<Quoted(W_DiagnosisRider), Quoted(W_IndemnityRider)>>)) >>
      [] i % 3 = 2 ->
           << Member(K_insurance_company, Quoted(W_SamsungFetalPlan)),
              Member(K_product_name, Quoted(W_DiagnosisRider)),
              Member(K_special_contracts, Quoted(W_IndemnityRider)) >>
      [] OTHER ->
           << Member(K_insurance_company, <<"n", "u", "l", "l">>),
              Member(K_product_name, Quoted(<<" ">> \o W_HyundaiPlan \o <<" ">>)),
              Member(K_special_contracts, <<"n", "u", "l", "l">>) >>

\* the evidence text that marks entry i
EvidenceMark(i) == <<"e">> \o StrOfInt(i)

GoodEntry(i) ==
    ObjectText(EntryMembers(i) \o <<Member(K_evidence, Quoted(EvidenceMark(i)))>>)

\* entries that raise while they are mapped: no object, an insurer that is a
\* number, riders that are a number
BadEntries ==
    { <<"7">>,
      ObjectText(<< Member(K_insurance_company, <<"5">>),
                    Member(K_product_name, Quoted(<<"x">>)) >>),
      ObjectText(<< Member(K_insurance_company, Quoted(INSURER_NAMES[1])),
                    Member(K_product_name, Quoted(<<"x">>)),
                    Member(K_special_contracts, <<"7">>) >>) }

ReplyText(entries) == ObjectText(<<Member(K_recommendations, ListText(entries))>>)

GoodReply(n) == ReplyText([i \in 1..n |-> GoodEntry(i)])

BadReply(n, k, bad) == ReplyText([i \in 1..n |-> IF i = k THEN bad ELSE GoodEntry(i)])

ProsePrefix == <<"S", "u", "r", "e", "!", " ">>

ProseSuffix == <<" ", "o", "k", " ", "{", "?", "}">>

NonJsonText == <<"S", "o", "r", "r", "y", ",", " ", "n", "o", "n", "e", ".">>

\* text with its straight double quotes replaced by an opening and a closing glyph
Requoted(text, open, close) ==
    [i \in 1..Len(text) |->
        IF text[i] # "\"" THEN text[i]
        ELSE IF Cardinality({j \in 1..(i - 1) : text[j] = "\""}) % 2 = 0
             THEN open ELSE close]

\* a well-formed entry that also carries Python's capitalised literals
CapitalEntry(i) ==
    ObjectText(EntryMembers(i) \o
               << Member(K_evidence, Quoted(EvidenceMark(i))),
                  Member(<<"r", "e", "n", "e", "w">>, <<"T", "r", "u", "e">>),
                  Member(<<"o", "l", "d">>, <<"F", "a", "l", "s", "e">>),
                  Member(<<"n", "o", "t", "e">>, <<"N", "o", "n", "e">>) >>)

Label(kind, n, bad_at) ==
    [kind |-> kind, n |-> n, bad_at |-> bad_at, comp |-> <<>>, prod |-> <<>>]

\* replies that are JSON objects: n entries, the bad_at-th (if any) one that raises
ObjectReplies ==
    {[label |-> Label("valid", n, 0), text |-> JStr(GoodReply(n))] : n \in 0..MaxRecs}
        \cup {[label |-> Label("valid", n, 0), text |-> JStr(ProsePrefix \o GoodReply(n))]
                : n \in 1..2}
        \cup UNION {{[label |-> Label("bad_entry", n, k),
                      text |-> JStr(BadReply(n, k, bad))]
                        : k \in 1..n, bad \in BadEntries} : n \in 1..MaxRecs}

CutPoints(text) == {1, 2, 3, 60, Len(text) - 40, Len(text) - 1}

\* replies that are not JSON, by the kind of their defect
MalformedReplies ==
    {[label |-> Label("non_json", 0, 0), text |-> JStr(t)]
        : t \in {NonJsonText, <<>>, <<"}", " ", "{">>}}
        \cup {[label |-> Label("truncated", n, 0),
               text |-> JStr(SubSeq(GoodReply(n), 1, Len(GoodReply(n)) - cut))]
                : n \in 1..2, cut \in CutPoints(GoodReply(1))}
        \cup {[label |-> Label("glyph_quotes", n, 0),
               text |-> JStr(Requoted(GoodReply(n), q[1], q[2]))]
                : n \in 1..2, q \in {<<"LDQ", "RDQ">>, <<"LCB", "RCB">>}}
        \cup {[label |-> Label("capital_literals", n, 0),
               text |-> JStr(ReplyText([i \in 1..n |-> CapitalEntry(i)]))]
                : n \in 0..MaxRecs}
        \cup {[label |-> Label("trailing_text", 1, 0),
               text |-> JStr(GoodReply(1) \o ProseSuffix)],
              [label |-> Label("not_text", 0, 0), text |-> JNull]}

RawInsurers ==
    { INSURER_NAMES[1],
      INSURER_NAMES[3],
      W_SamsungFetalPlan,
      INSURER_NAMES[2] \o <<" ">> \o INSURER_NAMES[1] \o <<" ", "DA", "YI", "REK", "TEU">>,
      <<"MU","BAE","DANG"," ","AN","SIM"," ","BO","HEOM","(","TEUK","YAK","HYEONG",")">>,
      <<"a","b","c","d","e","f","g","h","i","j","k","l","m","n","o">>,
      <<"a","b","c","d","e","f","g","h","i","j","k","l","m","n">>,
      <<" ", " ">> \o W_FetalPlan \o <<" ", " ">>,
      <<" ", "a","b","c","d","e","f","g","h","i","j","k","l","m","n", " ">>,
      <<>> }

RawProducts ==
    { W_DiagnosisRider,
      W_FetalPlan,
      <<" ">> \o W_IndemnityRider \o <<" ">>,
      W_HyundaiPlan,
      <<>> }

\* one-entry replies over the raw (insurer, product) strings
PairReplies ==
    {[label |-> [kind |-> "pair", n |-> 1, bad_at |-> 0, comp |-> c, prod |-> p],
      text |-> JStr(ReplyText(<<ObjectText(<< Member(K_insurance_company, Quoted(c)),
                                             Member(K_product_name, Quoted(p)) >>)>>))]
        : c \in RawInsurers, p \in RawProducts}

U1 == <<"0", "3", "f", "a", "9", "c", "1", "e">>

U2 == <<"b", "7", "2", "d", "4", "4", "0", "a">>

\* uuid.uuid4().hex[:8]
Uuid8 == {U1, U2}

\* the uuid draws of one normalizer call
IdDraws ==
    { [result |-> U1, item |-> <<U2, U1, U2>>],
      [result |-> U2, item |-> <<U1, U1, U1>>] }

PassageLists ==
    { <<>>, <<DocA>>, <<DocB, DocC>>, <<DocA, DocD>>, <<DocC, DocA, DocB, DocA>> }

\* the tables after _load_data_maps, for each pair of files
LoadedTables ==
    { [price |-> LoadInto(JObj(<<>>), pf), sum |-> LoadInto(JObj(<<>>), sf)]
        : pf \in Files(PriceFileText), sf \in Files(SumInsuredFileText) }

FullTables ==
    [price |-> json_loads(PriceFileText).val, sum |-> json_loads(SumInsuredFileText).val]

Week24 ==
    [gestational_week |-> 24, is_multiple_pregnancy |-> FALSE,
     miscarriage_history |-> 0, risk_factors |-> <<RiskPreeclampsia>>]

(***************************************************************************)
(* The pipeline, stage by stage, for the request in slot r                 *)
(***************************************************************************)
ServingUnchanged ==
    UNCHANGED <<phase, RAG_AVAILABLE, vectorstore, self_vectorstore, faiss_index,
                PRICE_MAP, SUM_INSURED_MAP, unit>>

\* passages the store may return to the pipeline
RetrievedLists == {<<DocB, DocC>>}

\* a retrieval that builds the index when a request finds none
SearchBuildingIndex(r) ==
    /\ req[r].pc = "handler"
    /\ self_vectorstore' = Store(2)
    /\ req' = [req EXCEPT ![r].relevant_docs = <<DocB, DocC>>,
                          ![r].stages = Append(@, "search"),
                          ![r].pc = "searched"]
    /\ UNCHANGED <<phase, RAG_AVAILABLE, vectorstore, faiss_index,
                   PRICE_MAP, SUM_INSURED_MAP, unit>>

\* lines 169-173 without the return of lines 175-177: the call goes on to the
\* generation step with whatever retrieval gave
SearchWithoutEmptyCheck(r) ==
    /\ req[r].pc = "handler"
    /\ \E found \in SimilaritySearch(self_vectorstore, RetrievedLists) :
       \E docs \in {search_relevant_documents(self_vectorstore, found)} :
             req' = [req EXCEPT ![r].relevant_docs = docs,
                                ![r].stages = Append(@, "search"),
                                ![r].pc = "searched"]
    /\ ServingUnchanged

\* main.py lines 122-137 and lines 167-177: analysis, query, retrieval
Search(r) ==
    /\ req[r].pc = "handler"
    /\ \E an \in {_analyze_user_profile(ProfileDict(req[r].user_profile),
                                        req[r].health_status)} :
           IF an.raised
           THEN req' = [req EXCEPT ![r].pc = "returned",
                                   ![r].failed = "_analyze_user_profile",
                                   ![r].returned = generate_except(Raised)]
           ELSE \E found \in SimilaritySearch(self_vectorstore, RetrievedLists) :
                \E docs \in {search_relevant_documents(self_vectorstore, found)} :
                      req' = [req EXCEPT
                                ![r].analysis = an.value,
                                ![r].relevant_docs = docs,
                                ![r].stages = Append(@, "search"),
                                ![r].pc = IF docs = <<>> THEN "returned" ELSE "searched",
                                ![r].returned = IF docs = <<>>
                                                THEN Returned(_fallback_recommendation)
                                                ELSE @]
    /\ ServingUnchanged

\* what ask_question may do: raise, return None, a dict without an answer, or
\* a dict with one
AskOutcomes ==
    {[raised |-> TRUE, value |-> JNull], [raised |-> FALSE, value |-> JNull],
     [raised |-> FALSE, value |-> JObj(<< <<"error", JStr(<<"x">>)>> >>)]}
        \cup {[raised |-> FALSE, value |-> JObj(<< <<K_answer, a>> >>)]
                : a \in {JStr(GoodReply(2)), JStr(NonJsonText),
                         JStr(ReplyText(<<ObjectText(EntryMembers(1) \o
                              <<Member(K_evidence, <<"n", "u", "l", "l">>)>>)>>))}}

\* lines 180-184: context, question and the call of ask_question
Ask(r) ==
    /\ req[r].pc = "searched"
    /\ \E out \in AskOutcomes :
         req' = [req EXCEPT
                   ![r].stages = Append(@, "ask"),
                   ![r].rag_result = out.value,
                   ![r].pc = IF out.raised THEN "returned" ELSE "asked",
                   ![r].failed = IF out.raised THEN "ask_question" ELSE @,
                   ![r].returned = IF out.raised THEN generate_except(Raised) ELSE @]
    /\ ServingUnchanged

\* lines 186-192: the normalizer on the answer, then the choice of the result
Parse(r) ==
    /\ req[r].pc = "asked"
    /\ LET rag == req[r].rag_result
       IN  IF Truthy(rag) /\ DictGet(rag, K_answer).found
           THEN \E ids \in IdDraws :
                \E parsed \in {_parse_llm_response_to_recommendation(
                                    Get(rag, K_answer), req[r].analysis,
                                    req[r].relevant_docs, ids)} :
                      req' = [req EXCEPT
                                ![r].stages = Append(@, "parse"),
                                ![r].parsed = parsed,
                                ![r].pc = "returned",
                                ![r].returned = generate_except(AfterAsk(rag, parsed))]
           ELSE req' = [req EXCEPT
                          ![r].pc = "returned",
                          ![r].returned = generate_except(AfterAsk(rag, NoOutcome))]
    /\ ServingUnchanged

\* ItemOut accepts the item: the reason a str or None, every snippet a str
ItemOutValid(item) ==
    /\ item.insurance_recommendation_reason.t \in {"str", "null"}
    /\ \A i \in 1..Len(item.evidence_sources) :
          item.evidence_sources[i].text_snippet.t = "str"

RagPrefix == <<"r", "a", "g", "-">>

ErrPrefix == <<"e", "r", "r", "-">>

OkResponse(resultId, items) ==
    [status |-> 200, keys |-> {"resultId", "expiresInSec", "items"},
     resultId |-> resultId, expiresInSec |-> ExpiresInSec, items |-> items]

\* main.py lines 140-153, the rest of the try; ok = FALSE: an exception
recommend_try(returned, uuid) ==
    IF returned.raised THEN [ok |-> FALSE, response |-> NoResponse]
    ELSE LET res    == returned.value
             items  == IF "items" \in res.keys THEN res.items ELSE <<>>
             raw_id == IF "resultId" \in res.keys THEN res.resultId ELSE uuid
         IN  IF \E i \in 1..Len(items) : ~ItemOutValid(items[i])
             THEN [ok |-> FALSE, response |-> NoResponse]
             ELSE [ok |-> TRUE,
                   response |-> OkResponse(replace(raw_id, RagPrefix, <<>>), items)]

\* no except clause: the server answers the exception itself
InternalServerError(uuid) == ErrorResponse(500)

\* main.py lines 155-160: except Exception
recommend_except(uuid) == OkResponse(ErrPrefix \o uuid, <<>>)

recommend(returned, uuid) ==
    LET t == recommend_try(returned, uuid)
    IN  IF t.ok THEN t.response ELSE recommend_except(uuid)

\* main.py lines 140-160: the handler answers
Respond(r) ==
    /\ req[r].pc = "returned"
    /\ \E uuid \in Uuid8 :
         req' = [req EXCEPT ![r].pc = "responded",
                            ![r].response = recommend(req[r].returned, uuid)]
    /\ ServingUnchanged

\* the response is sent and the slot is free again
Finish(r) ==
    /\ req[r].pc = "responded"
    /\ req' = [req EXCEPT ![r] = IdleSlot]
    /\ ServingUnchanged

Body(up, hs) == JObj(<< <<"user_profile", JObj(up)>>, <<"health_status", JObj(hs)>> >>)

\* the request bodies of the main specification
Bodies ==
    { Body(<< <<"gestationalWeek", JNum(24)>>, <<"isMultiplePregnancy", JBool(FALSE)>>,
              <<"birthDate", JStr(<<"1","9","9","0","-","0","5","-","0","1">>)>> >>,
           << <<"pregnancyComplications", JList(<<JStr(PREECLAMPSIA)>>)>> >>),
      Body(<< <<"gestationalWeek", JNum(24)>>, <<"birthDate", JNum(19901301)>> >>, <<>>),
      Body(<< <<"gestationalWeek", JStr(<<"x">>)>> >>, <<>>) }

NoUnit == [fn |-> "none"]

Init ==
    /\ phase = "import"
    /\ RAG_AVAILABLE = FALSE
    /\ vectorstore = VNone
    /\ self_vectorstore = VNone
    /\ faiss_index \in {[exists |-> FALSE, ntotal |-> 0], [exists |-> TRUE, ntotal |-> 2]}
    /\ PRICE_MAP = JObj(<<>>)
    /\ SUM_INSURED_MAP = JObj(<<>>)
    /\ req = [r \in Slots |-> IdleSlot]
    /\ unit = NoUnit

Next ==
    \/ ImportRag
    \/ _load_data_maps
    \/ Construct
    \/ \E r \in Slots :
         \/ Receive(r, Bodies)
         \/ Search(r)
         \/ Ask(r)
         \/ Parse(r)
         \/ Respond(r)
         \/ Finish(r)

Spec == Init /\ [][Next]_vars

(***************************************************************************)
(* Direct calls of the Response Normalizer                                 *)
(***************************************************************************)
\* the process after its start with the given tables, no request in flight
Started(tables) ==
    /\ phase = "serving"
    /\ RAG_AVAILABLE = TRUE
    /\ vectorstore = Store(2)
    /\ self_vectorstore = Store(2)
    /\ faiss_index = [exists |-> TRUE, ntotal |-> 2]
    /\ PRICE_MAP = tables.price
    /\ SUM_INSURED_MAP = tables.sum
    /\ req = [r \in Slots |-> IdleSlot]

\* the calls made: a reply, the passages retrieved, the tables loaded
NormalizerCalls ==
    {[reply |-> r, relevant_docs |-> d, tables |-> FullTables]
        : r \in ObjectReplies, d \in PassageLists}
      \cup {[reply |-> r, relevant_docs |-> <<DocA>>, tables |-> t]
              : r \in PairReplies, t \in LoadedTables}
      \cup {[reply |-> r, relevant_docs |-> <<DocA>>, tables |-> FullTables]
              : r \in MalformedReplies}

InitNormalizer ==
    \E c \in NormalizerCalls :
        /\ Started(c.tables)
        /\ unit = [fn |-> "_parse_llm_response_to_recommendation", pc |-> "called",
                   label |-> c.reply.label, llm_response |-> c.reply.text,
                   analysis |-> Week24, relevant_docs |-> c.relevant_docs,
                   returned |-> NoOutcome]

\* the call runs to its end
Normalize ==
    /\ unit.fn = "_parse_llm_response_to_recommendation"
    /\ unit.pc = "called"
    /\ \E ids \in IdDraws :
         unit' = [unit EXCEPT
                    !.pc = "returned",
                    !.returned = _parse_llm_response_to_recommendation(
                                     unit.llm_response, unit.analysis,
                                     unit.relevant_docs, ids)]
    /\ UNCHANGED <<phase, RAG_AVAILABLE, vectorstore, self_vectorstore, faiss_index,
                   PRICE_MAP, SUM_INSURED_MAP, req>>

NextNormalizer == Normalize

SpecNormalizer == InitNormalizer /\ [][NextNormalizer]_vars

(***************************************************************************)
(* Properties of the Response Normalizer                                   *)
(***************************************************************************)
NormalizerReturned ==
    unit.fn = "_parse_llm_response_to_recommendation" /\ unit.pc = "returned"

Items == unit.returned.value.items

\* min(N, 3) for the N entries of the reply
Mapped == IF unit.label.n < 3 THEN unit.label.n ELSE 3

\* the passage that entry i (counted from 1) is paired with
DocFor(i) ==
    IF i <= Len(unit.relevant_docs) THEN unit.relevant_docs[i]
    ELSE unit.relevant_docs[1]

\* the passage carries no page number, or one that is an integer or digits
PageReadable(doc) ==
    \/ doc.metadata.t # "obj"
    \/ \A k \in 1..Len(doc.metadata.v) :
          doc.metadata.v[k][1] = K_page_number
              => \/ doc.metadata.v[k][2].t = "num"
                 \/ /\ doc.metadata.v[k][2].t = "str"
                    /\ AllDigits(doc.metadata.v[k][2].v)

\* the items are those of the first m entries, in the entries' order
InOrder(m) ==
    /\ Len(Items) = m
    /\ \A i \in 1..m : Items[i].evidence_sources[1].text_snippet = JStr(EvidenceMark(i))

\* none of the first min(N, 3) entries raises while it is mapped
EntriesSound ==
    /\ unit.label.bad_at = 0 \/ unit.label.bad_at > 3
    /\ \A i \in 1..Mapped : PageReadable(DocFor(i))

ObjectReplyReturned ==
    /\ NormalizerReturned
    /\ unit.label.kind \in {"valid", "bad_entry"}
    /\ unit.relevant_docs # <<>>

\* C1, as the code has it: for a reply that parses to an object with N
\* entries and a non-empty passage list, the items are those of the first
\* min(N, 3) entries in order when none of these entries raises while mapped
\* (each an object, insurer and product a string or null, riders iterable,
\* the paired passage's page number an integer), and there are no items at
\* all when one of them raises; no result has more than 3 items.
C1_FirstThreeOrNone ==
    /\ NormalizerReturned => Len(Items) <= 3
    /\ ObjectReplyReturned =>
          IF EntriesSound THEN InOrder(Mapped) ELSE Items = <<>>

\* C1 as claimed: every reply that parses to an object with N entries gives
\* exactly min(N, 3) items, in order
C1_AlwaysMinOfNAndThree ==
    ObjectReplyReturned => InOrder(Mapped) /\ Len(Items) <= 3

\* a reply of four well-formed entries was cut to its first three
C1_Witness ==
    /\ ObjectReplyReturned
    /\ unit.label.kind = "valid"
    /\ unit.label.n = 4
    /\ InOrder(3)

\* C2, as the code has it: the normalizer never raises to its caller; a
\* reply that is no JSON, is truncated JSON, uses quote glyphs, is followed
\* by text with braces or is no text at all gives zero items; a reply whose
\* only defect is Python's capitalised True/False/None is repaired and gives
\* the items of its first min(N, 3) entries.
C2_MalformedGivesNoItemsButCapitalsRepaired ==
    NormalizerReturned =>
        /\ ~unit.returned.raised
        /\ unit.label.kind \in {"non_json", "truncated", "glyph_quotes",
                                "trailing_text", "not_text"} => Items = <<>>
        /\ unit.label.kind = "capital_literals" => InOrder(Mapped)

\* C2 as claimed: all four kinds of malformed reply give zero items
C2_AllMalformedGiveNoItems ==
    (NormalizerReturned /\ unit.label.kind \in {"non_json", "truncated", "glyph_quotes",
                                                "capital_literals"})
        => Items = <<>> /\ ~unit.returned.raised

\* a truncated reply with a brace-delimited block, whose parse failed, gave
\* zero items
C2_Witness ==
    /\ NormalizerReturned
    /\ unit.label.kind = "truncated"
    /\ json_block(unit.llm_response.v).found
    /\ Items = <<>>
    /\ ~unit.returned.raised

\* the raw pair of a one-entry reply, trimmed
TrimmedInsurer == strip(unit.label.comp)

TrimmedProduct == strip(unit.label.prod)

PlanLike ==
    \/ \E k \in PLAN_KEYWORDS : Contains(TrimmedInsurer, k)
    \/ Len(TrimmedInsurer) >= 15

RiderLike == \E k \in CONTRACT_KEYWORDS : Contains(TrimmedProduct, k)

\* the names of the fixed list, by position, that occur in the insurer string
NamesIn == {k \in 1..Len(INSURER_NAMES) : Contains(TrimmedInsurer, INSURER_NAMES[k])}

PairReturned == NormalizerReturned /\ unit.label.kind = "pair"

\* C5: with trimmed insurer c and trimmed product p, when c is plan-like and
\* p is rider-like the item's product_name is c and its insurance_company is
\* the first listed insurer name occurring in c, or c when none occurs;
\* otherwise the item keeps insurance_company = c and product_name = p.
C5_FieldSwapCorrection ==
    PairReturned =>
        /\ Len(Items) = 1
        /\ IF PlanLike /\ RiderLike
           THEN /\ Items[1].product_name = TrimmedInsurer
                /\ Items[1].insurance_company =
                      IF NamesIn = {} THEN TrimmedInsurer
                      ELSE INSURER_NAMES[Min(NamesIn)]
           ELSE /\ Items[1].insurance_company = TrimmedInsurer
                /\ Items[1].product_name = TrimmedProduct

\* a plan name in the insurer field beside a rider: swapped, the insurer
\* re-derived from the plan name
C5_Witness ==
    /\ PairReturned
    /\ unit.label.comp = W_SamsungFetalPlan
    /\ unit.label.prod = W_DiagnosisRider
    /\ Items[1].product_name = W_SamsungFetalPlan
    /\ Items[1].insurance_company = INSURER_NAMES[1]

\* the values a table holds under insurer c and product p
Cells(table, c, p) ==
    UNION { {table.v[i][2].v[j][2]
                : j \in {j \in 1..Len(table.v[i][2].v) : table.v[i][2].v[j][1] = p}}
            : i \in {i \in 1..Len(table.v) : table.v[i][1] = c} }

\* C6: each item's amounts are looked up under the item's own (corrected)
\* insurer and product; a pair that a table does not hold gives sum_insured
\* 10,000,000 and monthly_cost "30000", and the item is still produced.
C6_TableMissGivesDefaults ==
    NormalizerReturned =>
        /\ unit.label.kind = "pair" => Len(Items) = 1
        /\ \A i \in 1..Len(Items) :
              LET sums   == Cells(SUM_INSURED_MAP, Items[i].insurance_company,
                                  Items[i].product_name)
                  prices == Cells(PRICE_MAP, Items[i].insurance_company,
                                  Items[i].product_name)
              IN  /\ sums = {} => Items[i].sum_insured = 10000000
                  /\ prices = {} => Items[i].monthly_cost = <<"3","0","0","0","0">>
                  /\ \A x \in sums : Items[i].sum_insured = x.v
                  /\ \A x \in prices : Items[i].monthly_cost = StrOfInt(x.v)

\* both tables loaded, the insurer known to them, the product not: defaults
C6_Witness ==
    /\ PairReturned
    /\ Cells(PRICE_MAP, INSURER_NAMES[1], W_FetalPlan) # {}
    /\ Cells(SUM_INSURED_MAP, INSURER_NAMES[1], W_FetalPlan) # {}
    /\ Items[1].insurance_company = INSURER_NAMES[1]
    /\ Items[1].product_name = W_HyundaiPlan
    /\ Items[1].sum_insured = 10000000
    /\ Items[1].monthly_cost = <<"3","0","0","0","0">>

(***************************************************************************)
(* Properties of the pipeline and the endpoint                             *)
(***************************************************************************)
\* generate_rag_recommendation has returned in slot r
PipelineReturned(r) == req[r].pc \in {"returned", "responded"} /\ req[r].user_profile # JNull

\* the cases in which the claim names the fallback
FallbackCase(r) ==
    \/ req[r].failed # "none"
    \/ req[r].relevant_docs = <<>>
    \/ req[r].rag_result.t # "obj"
    \/ \A k \in 1..Len(req[r].rag_result.v) : req[r].rag_result.v[k][1] # "answer"
    \/ req[r].parsed.value.items = <<>>

IsFallback(result) ==
    /\ result.resultId = <<"f","a","l","l","b","a","c","k">>
    /\ result.items = <<>>
    /\ result.rag_metadata.fallback

\* C3: generate_rag_recommendation never raises; it returns the fallback
\* result when retrieval gave no passages, the generation call gave nothing
\* or no answer, the normalizer gave zero items or a stage raised; in every
\* other case it returns the normalizer's result, of 1 to 3 items.
C3_FallbackOrNormalizerResult ==
    \A r \in Slots :
        PipelineReturned(r) =>
            /\ ~req[r].returned.raised
            /\ IF FallbackCase(r) THEN IsFallback(req[r].returned.value)
               ELSE /\ req[r].returned.value = req[r].parsed.value
                    /\ Len(req[r].returned.value.items) \in 1..3

\* the normalizer gave zero items and the pipeline returned the fallback
C3_Witness ==
    \E r \in Slots :
        /\ PipelineReturned(r)
        /\ "parse" \in {req[r].stages[k] : k \in 1..Len(req[r].stages)}
        /\ req[r].parsed.value.items = <<>>
        /\ IsFallback(req[r].returned.value)

\* the endpoint has answered a request that passed validation
Answered(r) == req[r].pc = "responded" /\ req[r].user_profile # JNull

\* building the response model raised: an item's reason is neither text nor
\* null, or an evidence snippet is no text
ResponseModelRaised(r) ==
    \E i \in 1..Len(req[r].returned.value.items) :
        \/ req[r].returned.value.items[i].insurance_recommendation_reason.t
               \notin {"str", "null"}
        \/ \E k \in 1..Len(req[r].returned.value.items[i].evidence_sources) :
               req[r].returned.value.items[i].evidence_sources[k].text_snippet.t # "str"

\* C4: a request that passed validation is answered with status 200 and a
\* body of resultId, expiresInSec = 600 and items; when an exception reached
\* the handler the resultId begins with "err-" and there are no items.
C4_AlwaysOkResponse ==
    \A r \in Slots :
        Answered(r) =>
            /\ req[r].response.status = 200
            /\ req[r].response.keys = {"resultId", "expiresInSec", "items"}
            /\ req[r].response.expiresInSec = 600
            /\ IF req[r].returned.raised \/ ResponseModelRaised(r)
               THEN /\ StartsAt(req[r].response.resultId, <<"e","r","r","-">>, 1)
                    /\ req[r].response.items = <<>>
               ELSE req[r].response.items = req[r].returned.value.items

\* an exception reached the handler and the answer carries an err- id
C4_Witness ==
    \E r \in Slots :
        /\ Answered(r)
        /\ ResponseModelRaised(r)
        /\ req[r].response.status = 200
        /\ StartsAt(req[r].response.resultId, <<"e","r","r","-">>, 1)

\* C10: once the process has started, no step changes PRICE_MAP,
\* SUM_INSURED_MAP or the recommender's vector store; the vector store is
\* written only by the constructor, before any request is handled.
C10_RequestsWriteNoSharedState ==
    [][ /\ phase = "serving"
            => UNCHANGED <<PRICE_MAP, SUM_INSURED_MAP, self_vectorstore>>
        /\ self_vectorstore' # self_vectorstore
            => phase = "construct" /\ \A r \in Slots : req[r].pc = "idle" ]_vars

\* two requests in flight at different stages, one of them in its fallback
C10_Witness ==
    /\ phase = "serving"
    /\ PRICE_MAP # JObj(<<>>)
    /\ \E r1, r2 \in Slots :
          /\ req[r1].pc = "returned" /\ IsFallback(req[r1].returned.value)
          /\ req[r2].pc = "asked"

(***************************************************************************)
(* Direct calls of the Profile Normalizer                                  *)
(***************************************************************************)
\* a key left out of a dict
Absent == [t |-> "absent", v |-> 0]

Entry(key, x) == IF x = Absent THEN <<>> ELSE << <<key, x>> >>

\* flat profiles: each field under its camel-case key, its snake-case key,
\* both or neither
FlatProfiles ==
    { JObj(Entry("gestationalWeek", gc) \o Entry("gestational_week", gs)
           \o Entry("isMultiplePregnancy", mc) \o Entry("is_multiple_pregnancy", ms)
           \o Entry("miscarriageHistory", hc) \o Entry("miscarriage_history", hs))
        : gc \in {Absent, JNum(0), JNum(24)}, gs \in {Absent, JNum(0), JNum(5)},
          mc \in {Absent, JBool(FALSE), JBool(TRUE)},
          ms \in {Absent, JBool(FALSE), JBool(TRUE)},
          hc \in {Absent, JNum(0), JNum(2)}, hs \in {Absent, JNum(0), JNum(1)} }

\* profiles with a nested pregnancyInfo, and one whose week is no number
OtherProfiles ==
    { JObj(<< <<"pregnancyInfo", pi>>, <<"gestationalWeek", JNum(9)>> >>)
        : pi \in {JObj(<< <<"gestationalWeek", JNum(3)>> >>), JNull, JNum(7)} }
      \cup { JObj(<< <<"gestationalWeek", JStr(<<"x">>)>> >>) }

HealthStatuses ==
    { JObj(<<>>),
      JObj(<< <<"pregnancyComplications",
                JList(<<JStr(PREECLAMPSIA), JStr(<<"O","T","H","E","R">>)>>)>> >>),
      JObj(<< <<"pregnancy_complications",
                JList(<<JObj(<< <<"complication_type", JStr(PRETERM_RISK)>> >>)>>)>> >>),
      JObj(<< <<"pregnancyComplications", JNum(7)>> >>) }

ProfileCalls ==
    {[user_profile |-> up, health_status |-> JObj(<<>>)]
        : up \in FlatProfiles \cup OtherProfiles}
      \cup {[user_profile |-> JObj(<< <<"gestationalWeek", JNum(24)>> >>),
             health_status |-> hs] : hs \in HealthStatuses}

InitProfile ==
    /\ Started(FullTables)
    /\ \E c \in ProfileCalls :
          unit = [fn |-> "_analyze_user_profile", pc |-> "called",
                  user_profile |-> c.user_profile, health_status |-> c.health_status,
                  returned |-> AnalysisRaised]

\* the call runs to its end
Analyze ==
    /\ unit.fn = "_analyze_user_profile"
    /\ unit.pc = "called"
    /\ unit' = [unit EXCEPT
                  !.pc = "returned",
                  !.returned = _analyze_user_profile(unit.user_profile,
                                                     unit.health_status)]
    /\ UNCHANGED <<phase, RAG_AVAILABLE, vectorstore, self_vectorstore, faiss_index,
                   PRICE_MAP, SUM_INSURED_MAP, req>>

NextProfile == Analyze

SpecProfile == InitProfile /\ [][NextProfile]_vars

Present(d, key) == \E k \in 1..Len(d.v) : d.v[k][1] = key

ValueAt(d, key) == d.v[CHOOSE k \in 1..Len(d.v) : d.v[k][1] = key][2]

\* the value under the first spelling present, the camel-case one first
FirstPresent(d, camel, snake, default) ==
    IF Present(d, camel) THEN ValueAt(d, camel)
    ELSE IF Present(d, snake) THEN ValueAt(d, snake)
    ELSE default

DateInputs ==
    { [value |-> JNull, convertible |-> TRUE],
      [value |-> JStr(<<"2","0","2","4","-","0","5","-","0","1">>), convertible |-> TRUE],
      [value |-> JStr(<<"2","0","2","4","-","0","5","-","0","1",
                        "T","1","0",":","0","0",":","0","0">>), convertible |-> TRUE],
      [value |-> JStr(<<"2","0","2","4","-","1","3","-","0","1">>), convertible |-> FALSE],
      [value |-> JStr(<<"2","0","2","4","-","0","2","-","3","0">>), convertible |-> FALSE],
      [value |-> JStr(<<"x">>), convertible |-> FALSE],
      [value |-> JNum(20240501), convertible |-> TRUE],
      [value |-> JNum(20241301), convertible |-> FALSE],
      [value |-> JNum(20240532), convertible |-> FALSE],
      [value |-> JNum(2024050), convertible |-> FALSE],
      [value |-> JNum(123), convertible |-> FALSE],
      [value |-> JList(<<JNum(2024), JNum(5), JNum(1)>>), convertible |-> TRUE],
      [value |-> JList(<<JNum(2024), JNum(13), JNum(1)>>), convertible |-> FALSE],
      [value |-> JList(<<JNum(2024), JNum(2), JNum(30)>>), convertible |-> FALSE],
      [value |-> JList(<<JStr(<<"2","0","2","4">>), JStr(<<"5">>), JStr(<<"x">>)>>),
       convertible |-> FALSE],
      [value |-> JList(<<JNull, JNum(1), JNum(1)>>), convertible |-> FALSE] }

DateFields == {"birthDate", "expectedDate"}

DateBody(field, value) ==
    Body(<< <<"gestationalWeek", JNum(24)>>, <<field, value>> >>, <<>>)

DateBodies == {DateBody(f, i.value) : f \in DateFields, i \in DateInputs}

InitDates == Started(FullTables) /\ unit = NoUnit

NextDates == \E r \in Slots : Receive(r, DateBodies) \/ Finish(r)

SpecDates == InitDates /\ [][NextDates]_vars

\* C9 as claimed: whatever date input the body carries, the request
\* proceeds to the handler, and an input that names no calendar date is
\* carried as a null date.
C9_DateFailureGivesNullDate ==
    \A r \in Slots : \A f \in DateFields : \A i \in DateInputs :
        (req[r].pc # "idle" /\ req[r].body = DateBody(f, i.value)) =>
            /\ req[r].pc = "handler"
            /\ ~i.convertible => ValueAt(req[r].user_profile, f) = JNull

(***************************************************************************)
(* Stage ordering inside one call of generate_rag_recommendation           *)
(***************************************************************************)
\* the stages one call may have invoked so far, in the order of lines 173,
\* 184 and 187
StageOrder == <<"search", "ask", "parse">>

Prefixes(seq) == {SubSeq(seq, 1, n) : n \in 0..Len(seq)}

\* the generation call returned a reply that holds an answer (line 186)
HasAnswer(r) == Truthy(req[r].rag_result) /\ DictGet(req[r].rag_result, K_answer).found

\* the handler of slot r has entered generate_rag_recommendation
InCall(r) == req[r].user_profile # JNull /\ req[r].pc # "idle"

\* C11: within one call of generate_rag_recommendation the invoked stages are
\* a prefix of retrieval, generation, normalizer, each at most once; a call
\* that has returned invoked retrieval; generation was invoked only when
\* retrieval returned at least one passage; the normalizer was invoked only
\* when the reply held an answer, hence never with an empty passage list; and
\* after a stage that failed (retrieval giving nothing, ask_question raising)
\* no further stage was invoked.
C11_StageOrdering ==
    \A r \in Slots :
        InCall(r) =>
            /\ req[r].stages \in Prefixes(StageOrder)
            /\ PipelineReturned(r) => Len(req[r].stages) >= 1
            /\ Len(req[r].stages) >= 2 => req[r].relevant_docs # <<>>
            /\ Len(req[r].stages) = 3 => HasAnswer(r) /\ req[r].relevant_docs # <<>>
            /\ req[r].pc # "handler" /\ req[r].relevant_docs = <<>>
                  => req[r].stages = <<"search">> /\ PipelineReturned(r)
            /\ req[r].failed = "ask_question"
                  => req[r].stages = <<"search", "ask">> /\ PipelineReturned(r)
            /\ PipelineReturned(r) /\ Len(req[r].stages) = 2 => ~HasAnswer(r)

\* one call ran all three stages while another stopped at a generation call
\* that raised
C11_Witness ==
    \E r, q \in Slots :
        /\ PipelineReturned(r) /\ req[r].stages = StageOrder
        /\ req[r].parsed.value.items # <<>>
        /\ PipelineReturned(q) /\ req[q].failed = "ask_question"
        /\ req[q].stages = <<"search", "ask">>

====
